---- MODULE Spec2Model ----
(***************************************************************************)
(* Model of the source-image path resolver (utils.py) and of the metadata  *)
(* shaping of the plugin (plugin.py).                                      *)
(*                                                                         *)
(* A path or file name is a sequence of components; an absolute path       *)
(* starts with the component "/" and the empty sequence is the empty       *)
(* string.  Python values are records tagged with their type.              *)
(***************************************************************************)
EXTENDS Integers, Sequences, FiniteSets, TLC

VARIABLES fs, scan, server_config, server_config_filename, config_file,
          accepted, call, result

vars == <<fs, scan, server_config, server_config_filename, config_file,
          accepted, call, result>>

\* what a call of the resolver or of the metadata shaping leaves alone
env == <<fs, scan, server_config, server_config_filename, config_file, accepted>>

----------------------------------------------------------------------------
(* Bounds *)

\* modification times of files range over 1..MaxMtime
MaxMtime == 2

\* longest list of search directories passed to a call
MaxDirs == 2

\* longest list of paths held by one role of a role map
MaxRefs == 2

\* adds are followed until this many directories were announced as listed
MaxListed == 3

----------------------------------------------------------------------------
(* Python values *)

None == [type |-> "NoneType"]

Str(p) == [type |-> "str", val |-> p]

PyInt(n) == [type |-> "int", val |-> n]

Bool(b) == [type |-> "bool", val |-> b]

List(s) == [type |-> "list", val |-> s]

\* a dict is a function from the keys it holds to values
Dict(f) == [type |-> "dict", val |-> f]

\* the outcome of a call that raised instead of returning
Raise(e) == [type |-> "raise", val |-> e]

\* Python truth value, as tested by `not x`, `if x` and `x and y`
Truthy(v) ==
    CASE v.type = "NoneType" -> FALSE
      [] v.type = "str"      -> v.val # <<>>
      [] v.type = "int"      -> v.val # 0
      [] v.type = "bool"     -> v.val
      [] v.type = "list"     -> v.val # <<>>
      [] v.type = "dict"     -> DOMAIN v.val # {}
      [] OTHER               -> TRUE

\* dict.get(key, default)
Get(d, key, default) == IF key \in DOMAIN d.val THEN d.val[key] ELSE default

----------------------------------------------------------------------------
(* The file system *)

File == "a.png"

Other == "b.png"

OutDir == <<"/", "out">>

AltDir == <<"/", "alt">>

MissingDir == <<"/", "missing">>

\* os.path.join(root_dir, 'outputs')
DefaultOutputs == <<"/", "outputs">>

\* where the upload pipeline keeps its temporary copies
UploadDir == <<"/", "Temp", "Gradio">>

\* an upload area whose path has the appdata marker but not the temp marker
AppDataDir == <<"/", "AppData", "gradio">>

Cwd == <<"/">>

\* directories that exist in every file system of the model
FixedDirs ==
    { <<"/">>, OutDir, OutDir \o <<"sub">>, OutDir \o <<"sub2">>, AltDir,
      DefaultOutputs, <<"/", "Temp">>, UploadDir, <<"/", "AppData">>, AppDataDir }

\* the places where an entry named File may or may not exist
Slots ==
    { OutDir \o <<File>>, OutDir \o <<"sub", File>>, OutDir \o <<"sub2", File>>,
      AltDir \o <<File>>, DefaultOutputs \o <<File>>, UploadDir \o <<File>> }

Absent == [kind |-> "none", mtime |-> 0]

RegularFile(t) == [kind |-> "file", mtime |-> t]

\* a symbolic link whose target is gone: lexists is true, stat fails
Dangling == [kind |-> "dangling", mtime |-> 0]

Directory == [kind |-> "dir", mtime |-> 1]

\* what each slot may hold: the direct child of OutDir is old and the one of
\* AltDir recent, the nested files take every modification time, and one
\* nested entry may be a dangling link
SlotEntries(p) ==
    IF p = OutDir \o <<"sub2", File>>
      THEN {Absent, Dangling} \cup {RegularFile(t) : t \in 1..MaxMtime}
    ELSE IF p \in {DefaultOutputs \o <<File>>, UploadDir \o <<File>>}
      THEN {Absent, RegularFile(1)}
    ELSE IF p = AltDir \o <<File>>
      THEN {Absent, RegularFile(MaxMtime)}
    ELSE IF p = OutDir \o <<File>>
      THEN {Absent, RegularFile(1)}
    ELSE {Absent} \cup {RegularFile(t) : t \in 1..MaxMtime}

FileSystems == { f \in [Slots -> {Absent, Dangling} \cup {RegularFile(t) : t \in 1..MaxMtime}] :
                   \A p \in Slots : f[p] \in SlotEntries(p) }

IsAbs(p) == p # <<>> /\ p[1] = "/"

\* os.path.abspath
Abs(p) == IF IsAbs(p) THEN p ELSE Cwd \o p

Entry(p) ==
    IF Abs(p) \in DOMAIN fs THEN fs[Abs(p)]
    ELSE IF Abs(p) \in FixedDirs THEN Directory
    ELSE Absent

\* os.path.isfile, os.path.isdir, os.path.lexists
isfile(p) == Entry(p).kind = "file"

isdir(p) == Entry(p).kind = "dir"

lexists(p) == Entry(p).kind # "none"

\* os.path.join(a, b): an absolute b discards a
Join(a, b) == IF IsAbs(b) THEN b ELSE a \o b

\* os.path.basename
basename(p) == IF p = <<>> \/ p = <<"/">> THEN <<>> ELSE <<p[Len(p)]>>

\* the orders in which a directory scan may list the entry names; the
\* variable scan is the order of the file system at hand
ScanOrders ==
    { <<"sub", "sub2", File, Other>>, <<"sub2", "sub", File, Other>> }

----------------------------------------------------------------------------
(* utils.py: find_file_by_name *)

\* the directories below d, in the order the recursive glob visits them
RECURSIVE rlistdir(_, _)
rlistdir(d, i) ==
    IF i > Len(scan) THEN <<>>
    ELSE LET sub == d \o <<scan[i]>>
         IN  (IF isdir(sub) THEN <<sub>> \o rlistdir(sub, 1) ELSE <<>>)
             \o rlistdir(d, i + 1)

\* glob.glob(os.path.join(search_dir, '**', filename), recursive=True): the
\* search directory itself comes first, then the directories below it; no
\* name of the model holds a wildcard character or starts with a dot
glob(search_dir, filename) ==
    IF IsAbs(filename)
      THEN IF lexists(filename) THEN <<filename>> ELSE <<>>
      ELSE LET dirs  == <<search_dir>> \o rlistdir(search_dir, 1)
               cands == [i \in 1..Len(dirs) |-> Join(dirs[i], filename)]
           IN  SelectSeq(cands, LAMBDA p : lexists(p))

\* mutant of MaxByMtime: the first match is taken, whatever its mtime
MaxByMtime_FirstMatch(matches) ==
    IF \E i \in 1..Len(matches) : Entry(matches[i]).kind = "dangling"
      THEN Raise("OSError")
      ELSE Str(matches[1])

\* max(matches, key=os.path.getmtime): the first match of greatest mtime;
\* os.path.getmtime raises for an entry that cannot be stat'ed
MaxByMtime(matches) ==
    IF \E i \in 1..Len(matches) : Entry(matches[i]).kind = "dangling"
      THEN Raise("OSError")
      ELSE LET best == CHOOSE i \in 1..Len(matches) :
                         /\ \A j \in 1..Len(matches) :
                              Entry(matches[j]).mtime <= Entry(matches[i]).mtime
                         /\ \A j \in 1..(i - 1) :
                              Entry(matches[j]).mtime < Entry(matches[i]).mtime
           IN  Str(matches[best])

\* mutant of SearchFrom: no direct check, the recursive glob decides alone
RECURSIVE SearchFrom_GlobOnly(_, _, _, _)
SearchFrom_GlobOnly(filename, dirs, i, recursive) ==
    IF i > Len(dirs) THEN None
    ELSE IF ~isdir(dirs[i]) THEN SearchFrom_GlobOnly(filename, dirs, i + 1, recursive)
    ELSE IF filename.type # "str" THEN Raise("TypeError")
    ELSE LET matches == glob(dirs[i], filename.val)
         IN  IF recursive /\ matches # <<>> THEN MaxByMtime(matches)
             ELSE SearchFrom_GlobOnly(filename, dirs, i + 1, recursive)

\* the loop over search_dirs, from position i on
RECURSIVE SearchFrom(_, _, _, _)
SearchFrom(filename, dirs, i, recursive) ==
    IF i > Len(dirs) THEN None
    ELSE IF ~isdir(dirs[i]) THEN SearchFrom(filename, dirs, i + 1, recursive)
    ELSE IF filename.type # "str" THEN Raise("TypeError")
    ELSE LET direct_path == Join(dirs[i], filename.val)
             matches     == glob(dirs[i], filename.val)
         IN  IF isfile(direct_path) THEN Str(direct_path)
             ELSE IF recursive /\ matches # <<>> THEN MaxByMtime(matches)
             ELSE SearchFrom(filename, dirs, i + 1, recursive)

find_file_by_name(filename, search_dirs, recursive) ==
    IF ~Truthy(filename) THEN None
    ELSE LET dirs == IF ~Truthy(search_dirs) THEN <<DefaultOutputs>>
                     ELSE search_dirs.val
         IN  SearchFrom(filename, dirs, 1, recursive)

----------------------------------------------------------------------------
(* utils.py: resolve_source_image *)

\* str.lower() of one path component
Lower(n) ==
    CASE n = "Temp"    -> "temp"
      [] n = "Gradio"  -> "gradio"
      [] n = "AppData" -> "appdata"
      [] OTHER         -> n

\* marker in s.lower(): the markers hold no separator, and no component of
\* the model holds a marker as a proper part of its name
InLower(marker, s) == \E i \in 1..Len(s) : Lower(s[i]) = marker

\* the classification of a path string by resolve_source_image
resolve_is_temp(s) == InLower("gradio", s) /\ InLower("temp", s)

\* `path and os.path.isfile(path)`: os.path.isfile is False for an integer
\* that is no open file and raises TypeError for any other non-path value
isfile_raises(path) == Truthy(path) /\ path.type \notin {"str", "int"}

is_existing_file(path) == Truthy(path) /\ path.type = "str" /\ isfile(path.val)

\* mutant of resolve_str: the search comes before the check of the path
resolve_str_SearchFirst(source_info, search_dirs) ==
    LET filename == Str(basename(source_info.val))
        found    == find_file_by_name(filename, search_dirs, TRUE)
    IN  IF found.type = "raise" THEN found
        ELSE IF Truthy(found) THEN found
        ELSE IF isfile(source_info.val) THEN source_info
        ELSE None

resolve_str(source_info, search_dirs) ==
    LET is_temp  == resolve_is_temp(source_info.val)
        filename == Str(basename(source_info.val))
        found    == find_file_by_name(filename, search_dirs, TRUE)
    IN  IF ~is_temp /\ isfile(source_info.val) THEN source_info
        ELSE IF found.type = "raise" THEN found
        ELSE IF Truthy(found) THEN found
        ELSE IF isfile(source_info.val) THEN source_info
        ELSE None

\* mutant of resolve_dict: an existing path is returned before any search,
\* whatever is_temp says
resolve_dict_PathFirst(source_info, search_dirs) ==
    LET path     == Get(source_info, "path", None)
        filename == Get(source_info, "filename", None)
        found    == IF Truthy(filename)
                      THEN find_file_by_name(filename, search_dirs, TRUE)
                      ELSE None
    IN  IF isfile_raises(path) THEN Raise("TypeError")
        ELSE IF is_existing_file(path) THEN path
        ELSE IF found.type = "raise" THEN found
        ELSE IF Truthy(found) THEN found
        ELSE None

resolve_dict(source_info, search_dirs) ==
    LET path     == Get(source_info, "path", None)
        filename == Get(source_info, "filename", None)
        is_temp  == Get(source_info, "is_temp", Bool(FALSE))
        found    == IF Truthy(filename)
                      THEN find_file_by_name(filename, search_dirs, TRUE)
                      ELSE None
    IN  IF ~Truthy(is_temp) /\ isfile_raises(path) THEN Raise("TypeError")
        ELSE IF ~Truthy(is_temp) /\ is_existing_file(path) THEN path
        ELSE IF found.type = "raise" THEN found
        ELSE IF Truthy(found) THEN found
        ELSE IF isfile_raises(path) THEN Raise("TypeError")
        ELSE IF is_existing_file(path) THEN path
        ELSE None

resolve_source_image(source_info, search_dirs) ==
    IF ~Truthy(source_info) THEN None
    ELSE IF source_info.type = "str" THEN resolve_str(source_info, search_dirs)
    ELSE IF source_info.type = "dict" THEN resolve_dict(source_info, search_dirs)
    ELSE None

----------------------------------------------------------------------------
(* utils.py: get_source_images_from_metadata *)

\* the dict with no key
EmptyDict == Dict([key \in {} |-> None])

\* `if resolved: resolved_list.append(resolved)` ahead of the rest of the
\* loop; an exception raised for an item ends the loop
append_resolved(resolved, rest) ==
    IF resolved.type = "raise" THEN resolved
    ELSE IF rest.type = "raise" THEN rest
    ELSE IF Truthy(resolved) THEN List(<<resolved>> \o rest.val)
    ELSE rest

\* the loop that fills resolved_list, from position i on
RECURSIVE resolve_list(_, _, _)
resolve_list(value, search_dirs, i) ==
    IF i > Len(value) THEN List(<<>>)
    ELSE append_resolved(resolve_source_image(value[i], search_dirs),
                         resolve_list(value, search_dirs, i + 1))

\* `result[key] = resolved_list if len(resolved_list) > 1 else resolved_list[0]`
\* for a list that is not empty; None when the key is left out
collapse_resolved(resolved_list) ==
    IF resolved_list.type = "raise" THEN resolved_list
    ELSE IF ~Truthy(resolved_list) THEN None
    ELSE IF Len(resolved_list.val) > 1 THEN resolved_list
    ELSE resolved_list.val[1]

\* `if resolved: result[key] = resolved`; None when the key is left out
keep_resolved(resolved) ==
    IF resolved.type = "raise" \/ Truthy(resolved) THEN resolved ELSE None

\* what one key contributes
resolved_value(value, search_dirs) ==
    IF value.type = "NoneType" THEN None
    ELSE IF value.type = "list"
      THEN collapse_resolved(resolve_list(value.val, search_dirs, 1))
    ELSE keep_resolved(resolve_source_image(value, search_dirs))

\* the result dict of the contributions, or the exception of the key that
\* raised (were there several, the first of the dict's order)
collect_resolved(resolved) ==
    IF \E key \in DOMAIN resolved : resolved[key].type = "raise"
      THEN resolved[CHOOSE key \in DOMAIN resolved : resolved[key].type = "raise"]
    ELSE Dict([key \in { k \in DOMAIN resolved : resolved[k] # None } |->
                 resolved[key]])

\* the loop over source_images.items()
resolve_items(source_images, search_dirs) ==
    IF ~Truthy(source_images) THEN EmptyDict
    ELSE collect_resolved([key \in DOMAIN source_images.val |->
                             resolved_value(source_images.val[key], search_dirs)])

get_source_images_from_metadata(metadata, search_dirs) ==
    resolve_items(Get(metadata, "source_images", EmptyDict), search_dirs)

----------------------------------------------------------------------------
(* plugin.py: get_configured_output_dirs *)

CONFIG_KEY_SEARCH_DIRS == "source_images_search_dirs"

Range(q) == { q[i] : i \in 1..Len(q) }

\* `if path and os.path.isdir(path) and path not in search_dirs: append`
AppendDir(search_dirs, path) ==
    IF path # <<>> /\ isdir(path) /\ path \notin Range(search_dirs)
      THEN Append(search_dirs, path)
      ELSE search_dirs

\* the loop over the configured output paths, from key number i on
RECURSIVE AddSavePaths(_, _, _, _)
AddSavePaths(config, keys, i, search_dirs) ==
    IF i > Len(keys) THEN search_dirs
    ELSE LET path == Get(config, keys[i], None)
         IN  AddSavePaths(config, keys, i + 1,
                          IF Truthy(path) THEN AppendDir(search_dirs, path.val)
                          ELSE search_dirs)

\* the loop over the custom directories, from position i on
RECURSIVE AddCustomDirs(_, _, _)
AddCustomDirs(custom_dirs, i, search_dirs) ==
    IF i > Len(custom_dirs) THEN search_dirs
    ELSE AddCustomDirs(custom_dirs, i + 1, AppendDir(search_dirs, custom_dirs[i]))

\* server_config is None while the plugin instance or its configuration is
\* missing; a list of directories holds the paths themselves
get_configured_output_dirs ==
    LET configured ==
          IF Truthy(server_config)
            THEN LET saved  == AddSavePaths(server_config,
                                 <<"save_path", "image_save_path", "audio_save_path">>,
                                 1, <<>>)
                     custom == Get(server_config, CONFIG_KEY_SEARCH_DIRS, List(<<>>))
                 IN  IF custom.type = "list" THEN AddCustomDirs(custom.val, 1, saved)
                     ELSE saved
            ELSE <<>>
    IN  List(AppendDir(configured, DefaultOutputs))

----------------------------------------------------------------------------
(* plugin.py: resolve_and_build_info, process_source_paths *)

\* the classification of a path string by resolve_and_build_info
build_is_temp(s) ==
    InLower("gradio", s) /\ (InLower("temp", s) \/ InLower("appdata", s))

\* mutant of resolve_and_build_info: temp_path is stored for every
\* temporary path, found or not
resolve_and_build_info_KeepTemp(path) ==
    IF ~Truthy(path) \/ path.type # "str" THEN None
    ELSE LET filename == Str(basename(path.val))
             is_temp  == build_is_temp(path.val)
             original_path ==
                 find_file_by_name(filename, get_configured_output_dirs, TRUE)
         IN  IF is_temp
               THEN IF original_path.type = "raise" THEN original_path
                    ELSE IF Truthy(original_path)
                      THEN Dict([filename |-> filename, is_temp |-> Bool(is_temp),
                                 original_path |-> original_path, temp_path |-> path])
                      ELSE Dict([filename |-> filename, is_temp |-> Bool(is_temp),
                                 temp_path |-> path])
               ELSE Dict([filename |-> filename, is_temp |-> Bool(is_temp),
                          original_path |-> path])

resolve_and_build_info(path) ==
    IF ~Truthy(path) \/ path.type # "str" THEN None
    ELSE LET filename == Str(basename(path.val))
             is_temp  == build_is_temp(path.val)
             original_path ==
                 find_file_by_name(filename, get_configured_output_dirs, TRUE)
         IN  IF is_temp
               THEN IF original_path.type = "raise" THEN original_path
                    ELSE IF Truthy(original_path)
                      THEN Dict([filename |-> filename, is_temp |-> Bool(is_temp),
                                 original_path |-> original_path])
                      ELSE Dict([filename |-> filename, is_temp |-> Bool(is_temp),
                                 temp_path |-> path])
               ELSE Dict([filename |-> filename, is_temp |-> Bool(is_temp),
                          original_path |-> path])

\* `if info: info_list.append(info)` ahead of the rest of the loop; an
\* exception raised for an element ends the loop
append_info(info, rest) ==
    IF info.type = "raise" THEN info
    ELSE IF rest.type = "raise" THEN rest
    ELSE IF Truthy(info) THEN List(<<info>> \o rest.val)
    ELSE rest

\* the loop that fills info_list, from position i on: the list of the
\* records built, or the exception the first failing element raises
RECURSIVE build_info_list(_, _)
build_info_list(value, i) ==
    IF i > Len(value) THEN List(<<>>)
    ELSE append_info(resolve_and_build_info(value[i]), build_info_list(value, i + 1))

\* mutant of role_info: a list of one record is stored as a list
role_info_NoCollapse(value) ==
    IF value.type = "NoneType" THEN None
    ELSE IF value.type = "list"
      THEN LET info_list == build_info_list(value.val, 1)
           IN  IF info_list.type = "raise" THEN info_list
               ELSE IF ~Truthy(info_list) THEN None
               ELSE info_list
    ELSE IF value.type = "str" THEN resolve_and_build_info(value)
    ELSE None

\* what one role contributes: None when the role is left out of the result
role_info(value) ==
    IF value.type = "NoneType" THEN None
    ELSE IF value.type = "list"
      THEN LET info_list == build_info_list(value.val, 1)
           IN  IF info_list.type = "raise" THEN info_list
               ELSE IF ~Truthy(info_list) THEN None
               ELSE IF Len(info_list.val) > 1 THEN info_list
               ELSE info_list.val[1]
    ELSE IF value.type = "str" THEN resolve_and_build_info(value)
    ELSE None

process_source_paths(source_paths) ==
    IF ~Truthy(source_paths) THEN None
    ELSE LET infos == [key \in DOMAIN source_paths.val |->
                          role_info(source_paths.val[key])]
             kept  == { key \in DOMAIN infos : infos[key] # None }
         IN  IF \E key \in DOMAIN infos : infos[key].type = "raise"
               THEN Raise("OSError")
             ELSE IF kept = {} THEN None
             ELSE Dict([key \in kept |-> infos[key]])

----------------------------------------------------------------------------
(* plugin.py: the custom search directories of the configuration tab *)

\* the name of the host's configuration file
ConfigFilename == <<"wgp_config.json">>

\* the text of a configuration file whose write was cut short
Partial == [type |-> "partial"]

Tuple(s) == [type |-> "tuple", val |-> s]

\* gr.Dropdown(choices=..., value=...)
Dropdown(choices, value) == [type |-> "dropdown", choices |-> choices, value |-> value]

\* str.strip(): of the strings of the model only the blank one has white space
strip(p) == IF p = <<" ">> THEN <<>> ELSE p

\* d[key] = value
SetItem(d, key, value) ==
    Dict([k \in DOMAIN d.val \cup {key} |-> IF k = key THEN value ELSE d.val[k]])

\* list.remove(x): the first occurrence goes
RemoveFirst(s, x) ==
    LET i == CHOOSE n \in 1..Len(s) : s[n] = x /\ \A m \in 1..(n - 1) : s[m] # x
    IN  SubSeq(s, 1, i - 1) \o SubSeq(s, i + 1, Len(s))

\* _get_custom_dirs, self.server_config being config
get_custom_dirs(config) ==
    IF Truthy(config)
      THEN LET dirs == Get(config, CONFIG_KEY_SEARCH_DIRS, List(<<>>))
           IN  IF dirs.type = "list" THEN dirs ELSE List(<<>>)
      ELSE List(<<>>)

\* _get_custom_dirs hands out the list object the configuration holds, when
\* it holds one, and a new empty list otherwise
holds_list(config) ==
    /\ Truthy(config)
    /\ CONFIG_KEY_SEARCH_DIRS \in DOMAIN config.val
    /\ config.val[CONFIG_KEY_SEARCH_DIRS].type = "list"

\* the configuration after custom_dirs.append / custom_dirs.remove made the
\* list dirs: a list the configuration holds changes in place
changed_in_place(config, dirs) ==
    IF holds_list(config) THEN SetItem(config, CONFIG_KEY_SEARCH_DIRS, List(dirs))
    ELSE config

\* the outcomes of opening and writing the configuration file
WriteOutcomes == {"written", "open fails", "write fails"}

\* mutant of save_custom_dirs: the configuration takes the list only when
\* the file was written
save_custom_dirs_AfterWrite(config, filename, file, dirs, write) ==
    IF Truthy(config) /\ Truthy(filename)
      THEN LET saved == SetItem(config, CONFIG_KEY_SEARCH_DIRS, List(dirs))
           IN  CASE write = "written"     -> [server_config |-> saved, config_file |-> saved]
                 [] write = "open fails"  -> [server_config |-> config, config_file |-> file]
                 [] write = "write fails" -> [server_config |-> config, config_file |-> Partial]
      ELSE [server_config |-> config, config_file |-> file]

\* _save_custom_dirs: the configuration and the file after the call; opening
\* the file for writing empties it, and every failure is caught
save_custom_dirs(config, filename, file, dirs, write) ==
    IF Truthy(config) /\ Truthy(filename)
      THEN LET saved == SetItem(config, CONFIG_KEY_SEARCH_DIRS, List(dirs))
           IN  CASE write = "written"     -> [server_config |-> saved, config_file |-> saved]
                 [] write = "open fails"  -> [server_config |-> saved, config_file |-> file]
                 [] write = "write fails" -> [server_config |-> saved, config_file |-> Partial]
      ELSE [server_config |-> config, config_file |-> file]

\* the loop of _render_dirs_list over the output paths, from key number i
\* on; a path never equals one of the pairs of auto_dirs, so that the test
\* `path not in auto_dirs` lets every path through
RECURSIVE render_auto_dirs(_, _, _, _)
render_auto_dirs(config, keys, i, auto_dirs) ==
    IF i > Len(keys) THEN auto_dirs
    ELSE LET path == Get(config, keys[i], None)
         IN  render_auto_dirs(config, keys, i + 1,
                              IF Truthy(path) /\ isdir(path.val)
                                THEN Append(auto_dirs, <<path.val, keys[i]>>)
                                ELSE auto_dirs)

\* _render_dirs_list: the rows of the page, each directory with its tag or
\* with whether it exists
render_dirs_list(config) ==
    LET configured ==
          IF Truthy(config)
            THEN render_auto_dirs(config,
                   <<"save_path", "image_save_path", "audio_save_path">>, 1, <<>>)
            ELSE <<>>
        auto_dirs ==
          IF isdir(DefaultOutputs)
               /\ ~ \E n \in 1..Len(configured) : configured[n][1] = DefaultOutputs
            THEN Append(configured, <<DefaultOutputs, "default">>)
            ELSE configured
        custom_dirs == get_custom_dirs(config).val
    IN  [type |-> "html", auto |-> auto_dirs,
         custom |-> [n \in 1..Len(custom_dirs) |->
                       <<custom_dirs[n], isdir(custom_dirs[n])>>]]

\* what an add returns: the page, the text box and the dropdown choices
add_result(config, text) ==
    Tuple(<<render_dirs_list(config), Str(text), get_custom_dirs(config)>>)

\* _add_directory: the notice shown, the configuration and the file after the
\* call, and the values returned
add_directory(config, filename, file, new_dir, write) ==
    LET stripped == IF Truthy(new_dir) THEN strip(new_dir.val) ELSE <<>>
        path     == Abs(stripped)
        dirs     == Append(get_custom_dirs(config).val, path)
        after    == save_custom_dirs(changed_in_place(config, dirs),
                                     filename, file, dirs, write)
    IN  IF stripped = <<>>
          THEN [notice |-> "empty", server_config |-> config, config_file |-> file,
                result |-> add_result(config, <<>>)]
        ELSE IF ~isdir(path)
          THEN [notice |-> "missing", server_config |-> config, config_file |-> file,
                result |-> add_result(config, path)]
        ELSE IF path \in Range(get_custom_dirs(config).val)
          THEN [notice |-> "listed", server_config |-> config, config_file |-> file,
                result |-> add_result(config, <<>>)]
        ELSE [notice |-> "added", server_config |-> after.server_config,
              config_file |-> after.config_file,
              result |-> add_result(after.server_config, <<>>)]

\* what a remove returns: the page and the dropdown with nothing selected
remove_result(config) ==
    Tuple(<<render_dirs_list(config), Dropdown(get_custom_dirs(config), None)>>)

\* _remove_directory
remove_directory(config, filename, file, dir_to_remove, write) ==
    LET dirs  == RemoveFirst(get_custom_dirs(config).val, dir_to_remove.val)
        after == save_custom_dirs(changed_in_place(config, dirs),
                                  filename, file, dirs, write)
    IN  IF ~Truthy(dir_to_remove)
          THEN [notice |-> "empty", server_config |-> config, config_file |-> file,
                result |-> Tuple(<<render_dirs_list(config), get_custom_dirs(config)>>)]
        ELSE IF dir_to_remove.val \in Range(get_custom_dirs(config).val)
          THEN [notice |-> "removed", server_config |-> after.server_config,
                config_file |-> after.config_file,
                result |-> remove_result(after.server_config)]
        ELSE [notice |-> "none", server_config |-> config, config_file |-> file,
              result |-> remove_result(config)]

----------------------------------------------------------------------------
(* plugin.py: before_metadata_save_hook *)

\* `if source_info: configs['source_images'] = source_info`; an exception of
\* process_source_paths passes through the hook
store_source_info(configs, source_info) ==
    IF source_info.type = "raise" THEN source_info
    ELSE IF Truthy(source_info) THEN SetItem(configs, "source_images", source_info)
    ELSE configs

\* the metadata of an output after the hook: source_paths is what
\* plugin_data holds under source_image_paths
before_metadata_save_hook(configs, source_paths) ==
    IF configs.type = "NoneType" THEN configs
    ELSE store_source_info(configs, process_source_paths(source_paths))

----------------------------------------------------------------------------
(* Inputs *)

RECURSIVE SeqsUpTo(_, _)
SeqsUpTo(S, n) ==
    IF n = 0 THEN {<<>>}
    ELSE LET shorter == SeqsUpTo(S, n - 1)
         IN  shorter \cup { Append(s, x) : s \in shorter, x \in S }

SearchDirChoices == {OutDir, AltDir, MissingDir}

\* no list at all, or a list of up to MaxDirs different directories
SearchDirArgs ==
    {None} \cup
    { List(s) : s \in { q \in SeqsUpTo(SearchDirChoices, MaxDirs) :
                           \A i, j \in 1..Len(q) : q[i] = q[j] => i = j } }

\* a bare name, the empty string, None, a relative and an absolute path,
\* and a value that is not a string
FilenameArgs ==
    { Str(<<File>>), Str(<<Other>>), Str(<<>>), None,
      Str(<<"sub", File>>), Str(UploadDir \o <<File>>), PyInt(7) }

TempPath == UploadDir \o <<File>>

AppDataPath == AppDataDir \o <<File>>

RealPath == AltDir \o <<File>>

\* the values a record may hold under each key
KeyValues(key) ==
    CASE key = "path"     -> {Str(TempPath), Str(RealPath), List(<<Str(RealPath)>>)}
      [] key = "filename" -> {Str(<<File>>), Str(<<Other>>), PyInt(7)}
      [] key = "is_temp"  -> {Bool(TRUE), Bool(FALSE)}

RecordKeys == {"path", "filename", "is_temp"}

\* the records with any subset of the keys, the empty record among them
RecordArgs ==
    { Dict(f) : f \in UNION { { g \in [K -> UNION {KeyValues(k) : k \in RecordKeys}] :
                                  \A k \in K : g[k] \in KeyValues(k) } :
                              K \in SUBSET RecordKeys } }

SourceInfoArgs ==
    { Str(<<>>), Str(RealPath), Str(TempPath), Str(AppDataPath), None, PyInt(7) }
      \cup RecordArgs

\* the configurations of the host: none, one output path, and one with a
\* missing output path, a second output path and custom directories
Configs ==
    { None,
      Dict([save_path |-> Str(OutDir)]),
      Dict([save_path |-> Str(MissingDir), image_save_path |-> Str(AltDir),
            source_images_search_dirs |-> List(<<OutDir, AltDir>>)]) }

PathArgs ==
    { Str(TempPath), Str(RealPath), Str(AppDataPath), Str(<<>>), None, PyInt(7) }

\* the role that takes one image and the role that takes several
SingleRoleValues == { Str(TempPath), Str(RealPath), Str(<<>>), None, PyInt(7) }

ListRoleValues ==
    { List(l) : l \in SeqsUpTo({Str(TempPath), Str(RealPath), None}, MaxRefs) }
      \cup { None, Str(RealPath) }

RoleMapArgs ==
    {None} \cup
    { Dict(f) : f \in UNION { { g \in [K -> SingleRoleValues \cup ListRoleValues] :
                                  /\ "image_start" \in K => g["image_start"] \in SingleRoleValues
                                  /\ "image_refs" \in K => g["image_refs"] \in ListRoleValues } :
                              K \in SUBSET {"image_start", "image_refs"} } }

\* what the text box may hold: nothing, the empty and the blank string, a
\* relative and an absolute spelling of one directory, two more directories
\* and a directory that does not exist
NewDirArgs ==
    { None, Str(<<>>), Str(<<" ">>), Str(<<"out">>), Str(OutDir), Str(AltDir),
      Str(OutDir \o <<"sub">>), Str(MissingDir) }

\* what the dropdown may hold: nothing, or a directory, listed or not
DirToRemoveArgs ==
    { None, Str(OutDir), Str(AltDir), Str(OutDir \o <<"sub">>), Str(MissingDir) }

\* the host hands over the name of its configuration file, or nothing
ConfigFilenames == { None, Str(ConfigFilename) }

----------------------------------------------------------------------------
(* Specifications: one call at a time on a file system fixed at the start *)

\* no call is in progress
Idle == [op |-> "idle"]

Init ==
    /\ fs \in FileSystems
    /\ scan \in ScanOrders
    /\ server_config = None
    /\ server_config_filename = Str(ConfigFilename)
    /\ config_file = server_config
    /\ accepted = get_custom_dirs(server_config).val
    /\ call = Idle
    /\ result = None

FindFileByName ==
    \E filename \in FilenameArgs, search_dirs \in SearchDirArgs,
       recursive \in BOOLEAN :
        /\ call = Idle
        /\ call' = [op |-> "find", filename |-> filename,
                    search_dirs |-> search_dirs, recursive |-> recursive]
        /\ result' = find_file_by_name(filename, search_dirs, recursive)
        /\ UNCHANGED env

ResolveSourceImage ==
    \E source_info \in SourceInfoArgs, search_dirs \in SearchDirArgs :
        /\ call = Idle
        /\ call' = [op |-> "resolve", source_info |-> source_info,
                    search_dirs |-> search_dirs]
        /\ result' = resolve_source_image(source_info, search_dirs)
        /\ UNCHANGED env

ResolveAndBuildInfo ==
    \E path \in PathArgs :
        /\ call = Idle
        /\ call' = [op |-> "build", path |-> path]
        /\ result' = resolve_and_build_info(path)
        /\ UNCHANGED env

ProcessSourcePaths ==
    \E source_paths \in RoleMapArgs :
        /\ call = Idle
        /\ call' = [op |-> "process", source_paths |-> source_paths]
        /\ result' = process_source_paths(source_paths)
        /\ UNCHANGED env

\* the caller takes the result; the next call starts afresh
Return ==
    /\ call # Idle
    /\ call' = Idle
    /\ result' = None
    /\ UNCHANGED env

Next == FindFileByName \/ Return

Spec == Init /\ [][Next]_vars

NextResolve == ResolveSourceImage \/ Return

SpecResolve == Init /\ [][NextResolve]_vars

InitPlugin ==
    /\ fs \in FileSystems
    /\ scan \in ScanOrders
    /\ server_config \in Configs
    /\ server_config_filename = Str(ConfigFilename)
    /\ config_file = server_config
    /\ accepted = get_custom_dirs(server_config).val
    /\ call = Idle
    /\ result = None

NextPlugin == ResolveAndBuildInfo \/ ProcessSourcePaths \/ Return

SpecPlugin == InitPlugin /\ [][NextPlugin]_vars

\* the configuration tab: a plugin with or without a configuration and a
\* file name; accepted is a history variable, the list that the adds and
\* removes announced as done make of the list of the start
InitConfig ==
    /\ fs = [p \in Slots |-> Absent]
    /\ scan = <<"sub", "sub2", File, Other>>
    /\ server_config \in Configs
    /\ server_config_filename \in ConfigFilenames
    /\ config_file = server_config
    /\ accepted = get_custom_dirs(server_config).val
    /\ call = Idle
    /\ result = None

\* a write is attempted when the list changed and there are a configuration
\* and a file name
WriteOf(notice, write) ==
    IF notice \in {"added", "removed"} /\ Truthy(server_config)
         /\ Truthy(server_config_filename)
      THEN write ELSE "none"

AddDirectory ==
    \E new_dir \in NewDirArgs, write \in WriteOutcomes :
        LET out == add_directory(server_config, server_config_filename,
                                 config_file, new_dir, write)
        IN  /\ call = Idle
            /\ Len(accepted) < MaxListed
            /\ call' = [op |-> "add", new_dir |-> new_dir, notice |-> out.notice,
                        write |-> WriteOf(out.notice, write)]
            /\ server_config' = out.server_config
            /\ config_file' = out.config_file
            /\ result' = out.result
            /\ accepted' = IF out.notice = "added"
                             THEN Append(accepted, Abs(strip(new_dir.val)))
                             ELSE accepted
            /\ UNCHANGED <<fs, scan, server_config_filename>>

RemoveDirectory ==
    \E dir_to_remove \in DirToRemoveArgs, write \in WriteOutcomes :
        LET out == remove_directory(server_config, server_config_filename,
                                    config_file, dir_to_remove, write)
        IN  /\ call = Idle
            /\ call' = [op |-> "remove", dir_to_remove |-> dir_to_remove,
                        notice |-> out.notice,
                        write |-> WriteOf(out.notice, write)]
            /\ server_config' = out.server_config
            /\ config_file' = out.config_file
            /\ result' = out.result
            /\ accepted' = IF out.notice = "removed"
                                /\ dir_to_remove.val \in Range(accepted)
                             THEN RemoveFirst(accepted, dir_to_remove.val)
                             ELSE accepted
            /\ UNCHANGED <<fs, scan, server_config_filename>>

NextConfig == AddDirectory \/ RemoveDirectory \/ Return

SpecConfig == InitConfig /\ [][NextConfig]_vars

\* the record of a path is built and kept
BuildRecord ==
    \E path \in PathArgs :
        /\ call = Idle
        /\ call' = [op |-> "built", path |-> path,
                    stored |-> resolve_and_build_info(path)]
        /\ result' = None
        /\ UNCHANGED env

\* the record kept is resolved later, the file system being the same;
\* nothing was kept when building it raised
ResolveStored ==
    \E search_dirs \in SearchDirArgs :
        /\ call.op = "built"
        /\ call.stored.type # "raise"
        /\ call' = [op |-> "build_resolve", path |-> call.path,
                    search_dirs |-> search_dirs]
        /\ result' = resolve_source_image(call.stored, search_dirs)
        /\ UNCHANGED env

\* the hook stores the records of a role map in the metadata of an output
SaveMetadata ==
    \E source_paths \in RoleMapArgs :
        /\ call = Idle
        /\ call' = [op |-> "saved", source_paths |-> source_paths,
                    metadata |-> before_metadata_save_hook(EmptyDict, source_paths)]
        /\ result' = None
        /\ UNCHANGED env

\* the metadata are read back later, the file system being the same
ExtractSaved ==
    \E search_dirs \in SearchDirArgs :
        /\ call.op = "saved"
        /\ call.metadata.type # "raise"
        /\ call' = [op |-> "save_extract", source_paths |-> call.source_paths,
                    search_dirs |-> search_dirs]
        /\ result' = get_source_images_from_metadata(call.metadata, search_dirs)
        /\ UNCHANGED env

NextRoundTrip ==
    BuildRecord \/ ResolveStored \/ SaveMetadata \/ ExtractSaved \/ Return

SpecRoundTrip == Init /\ [][NextRoundTrip]_vars

----------------------------------------------------------------------------
(* Vocabulary of the properties *)

\* a string that is a single name: no directory component
IsBareName(v) == v.type = "str" /\ Len(v.val) = 1 /\ ~IsAbs(v.val)

\* p lies below directory d
Under(d, p) == Len(p) > Len(d) /\ SubSeq(p, 1, Len(d)) = d

\* the entries called name at any depth below directory d
Occurrences(d, name) ==
    { p \in Slots \cup FixedDirs : Under(d, p) /\ p[Len(p)] = name /\ lexists(p) }

\* the directories of the search list of the call, as passed
Listed == IF call.search_dirs.type = "list" THEN call.search_dirs.val ELSE <<>>

\* the regular files called name below the listed directories that exist
ListedFiles(name) ==
    { p \in Slots : /\ isfile(p)
                    /\ \E i \in 1..Len(Listed) :
                         isdir(Listed[i]) /\ p \in Occurrences(Listed[i], name) }

IsFindCall == call.op = "find"

----------------------------------------------------------------------------
(* find_file_by_name *)

\* C1 as stated: a file name that is a direct child file of one listed
\* directory D (and of no other listed directory) is answered by D/filename,
\* whatever the other listed directories hold below their top level.
C1_DirectChildAlwaysReturned ==
    (IsFindCall /\ IsBareName(call.filename)) =>
        \A i \in 1..Len(Listed) :
            ( /\ isdir(Listed[i])
              /\ isfile(Listed[i] \o call.filename.val)
              /\ \A j \in 1..Len(Listed) :
                   isfile(Listed[j] \o call.filename.val) => Listed[j] = Listed[i] )
            => result = Str(Listed[i] \o call.filename.val)

\* C1 amended: a file name that is a direct child file of a listed directory
\* D is answered by D/filename when no directory listed before D yields a
\* match of its own, that is, has the name as a direct child file or, in a
\* recursive search, holds an entry of that name at any depth.
C1_DirectChildOfFirstMatchingDir ==
    (IsFindCall /\ IsBareName(call.filename)) =>
        \A i \in 1..Len(Listed) :
            ( /\ isdir(Listed[i])
              /\ isfile(Listed[i] \o call.filename.val)
              /\ \A j \in 1..(i - 1) :
                   isdir(Listed[j]) =>
                     /\ ~isfile(Listed[j] \o call.filename.val)
                     /\ call.recursive =>
                          Occurrences(Listed[j], call.filename.val[1]) = {} )
            => result = Str(Listed[i] \o call.filename.val)

\* C1 witness: the direct child of the second listed directory is returned
\* although a newer file of the same name lies nested below that directory
C1_Witness ==
    /\ IsFindCall
    /\ call.filename = Str(<<File>>)
    /\ call.recursive
    /\ Listed = <<AltDir, OutDir>>
    /\ ~lexists(AltDir \o <<File>>)
    /\ isfile(OutDir \o <<File>>)
    /\ isfile(OutDir \o <<"sub", File>>)
    /\ Entry(OutDir \o <<"sub", File>>).mtime > Entry(OutDir \o <<File>>).mtime
    /\ result = Str(OutDir \o <<File>>)

\* C2 as stated: a search list none of whose directories holds the file name,
\* the empty list included, gives "not found".
C2_NotFoundWhenNoListedDirHasIt ==
    ( /\ IsFindCall
      /\ IsBareName(call.filename)
      /\ call.search_dirs.type = "list"
      /\ \A i \in 1..Len(Listed) :
           Occurrences(Listed[i], call.filename.val[1]) = {} )
    => result = None

\* C3 as stated: in a recursive search, when the listed directories hold two
\* files of the name with different modification times (and every entry of
\* that name can be read), the most recently modified one is returned.
C3_NewestOfAllMatches ==
    ( /\ IsFindCall
      /\ IsBareName(call.filename)
      /\ call.recursive
      /\ \A i \in 1..Len(Listed) : \A p \in Occurrences(Listed[i], call.filename.val[1]) :
           isfile(p)
      /\ \E p, q \in ListedFiles(call.filename.val[1]) :
           Entry(p).mtime # Entry(q).mtime )
    => /\ result.type = "str"
       /\ result.val \in ListedFiles(call.filename.val[1])
       /\ \A q \in ListedFiles(call.filename.val[1]) :
            Entry(q).mtime <= Entry(result.val).mtime

\* the first listed directory that exists and holds an entry of the name
FirstHolder(name) ==
    { Listed[i] : i \in { k \in 1..Len(Listed) :
        /\ isdir(Listed[k]) /\ Occurrences(Listed[k], name) # {}
        /\ \A j \in 1..(k - 1) :
             ~isdir(Listed[j]) \/ Occurrences(Listed[j], name) = {} } }

\* C3 amended: in a recursive search, let D be the first listed directory
\* that holds an entry of the name.  When D has a direct child file of the
\* name, that file is returned whatever the modification times; otherwise,
\* when the entries of the name below D are regular files of which two differ
\* in modification time, the most recently modified entry below D is
\* returned.  Matches in the directories listed after D are not compared.
C3_NewestWithinFirstMatchingDir ==
    (IsFindCall /\ IsBareName(call.filename) /\ call.recursive) =>
        \A d \in FirstHolder(call.filename.val[1]) :
            LET occ == Occurrences(d, call.filename.val[1])
            IN  /\ isfile(d \o call.filename.val) =>
                     result = Str(d \o call.filename.val)
                /\ ( /\ ~isfile(d \o call.filename.val)
                     /\ \A p \in occ : isfile(p)
                     /\ \E p, q \in occ : Entry(p).mtime # Entry(q).mtime )
                   => /\ result.type = "str"
                      /\ result.val \in occ
                      /\ \A q \in occ : Entry(q).mtime <= Entry(result.val).mtime

\* C3 witness: two nested files, the older one listed first by the scan
C3_Witness ==
    /\ IsFindCall
    /\ call.filename = Str(<<File>>)
    /\ call.recursive
    /\ Listed = <<OutDir>>
    /\ ~lexists(OutDir \o <<File>>)
    /\ scan[1] = "sub"
    /\ Entry(OutDir \o <<"sub", File>>) = RegularFile(1)
    /\ Entry(OutDir \o <<"sub2", File>>) = RegularFile(2)
    /\ result = Str(OutDir \o <<"sub2", File>>)

\* the directories a call searches: the list passed, or the default
Searched == IF Listed = <<>> THEN <<DefaultOutputs>> ELSE Listed

\* C4 as stated: only the basename of the file name argument is used, so a
\* path argument gives the result of its basename, and a returned path lies
\* inside one of the searched directories.
C4_OnlyBasenameUsed ==
    (IsFindCall /\ call.filename.type = "str") =>
        /\ result = find_file_by_name(Str(basename(call.filename.val)),
                                      call.search_dirs, call.recursive)
        /\ result.type = "str" =>
             \E i \in 1..Len(Searched) : Under(Searched[i], result.val)

----------------------------------------------------------------------------
(* resolve_source_image *)

IsResolveCall == call.op = "resolve"

\* a temporary path in the sense of the specification: its text holds, in
\* any letter case, the upload-tool marker and the temp or the appdata marker
IsTemporaryPath(s) ==
    InLower("gradio", s) /\ (InLower("temp", s) \/ InLower("appdata", s))

\* C5: a path that is not temporary and exists as a file, passed as a string
\* or as the path of a record whose is_temp is false, is returned unchanged,
\* whatever the search directories are and whatever they hold.
C5_ExistingRealPathReturnedUnchanged ==
    IsResolveCall =>
        LET info == call.source_info
        IN  /\ ( /\ info.type = "str"
                 /\ ~IsTemporaryPath(info.val)
                 /\ isfile(info.val) )
               => result = info
            /\ ( /\ info.type = "dict"
                 /\ {"path", "is_temp"} \subseteq DOMAIN info.val
                 /\ info.val["is_temp"] = Bool(FALSE)
                 /\ info.val["path"].type = "str"
                 /\ isfile(info.val["path"].val) )
               => result = info.val["path"]

\* C5 witness: the path is returned although the search directory holds
\* another file of the same name
C5_Witness ==
    /\ IsResolveCall
    /\ call.source_info = Str(RealPath)
    /\ isfile(RealPath)
    /\ call.search_dirs = List(<<OutDir>>)
    /\ isfile(OutDir \o <<File>>)
    /\ result = Str(RealPath)

\* C6: for a record marked temporary that has a file name and a path, the
\* path the search finds is returned even when the temporary file exists;
\* when the search finds nothing, the path of the record is returned if it
\* exists as a file, and "not found" otherwise.
C6_TemporaryRecordPriority ==
    IsResolveCall =>
        LET info == call.source_info
        IN  ( /\ info.type = "dict"
              /\ DOMAIN info.val = {"path", "filename", "is_temp"}
              /\ info.val["is_temp"] = Bool(TRUE)
              /\ info.val["filename"].type = "str"
              /\ info.val["path"].type = "str" )
            => LET found == find_file_by_name(info.val["filename"], call.search_dirs, TRUE)
                   path  == info.val["path"]
               IN  /\ found.type = "str" => result = found
                   /\ (found = None /\ isfile(path.val)) => result = path
                   /\ (found = None /\ ~isfile(path.val)) => result = None

\* C6 witness: the temporary file exists and the search finds the real file
C6_Witness ==
    /\ IsResolveCall
    /\ call.source_info =
         Dict([k \in RecordKeys |->
                 CASE k = "path" -> Str(TempPath)
                   [] k = "filename" -> Str(<<File>>)
                   [] k = "is_temp" -> Bool(TRUE)])
    /\ isfile(TempPath)
    /\ call.search_dirs = List(<<OutDir>>)
    /\ isfile(OutDir \o <<File>>)
    /\ result = Str(OutDir \o <<File>>)

\* C10 as stated: find_file_by_name and resolve_source_image never raise;
\* every outcome is a path or "not found".
C10_NeverRaises ==
    (IsFindCall \/ IsResolveCall) => result.type # "raise"

----------------------------------------------------------------------------
(* resolve_and_build_info, process_source_paths *)

IsBuildCall == call.op = "build"

IsProcessCall == call.op = "process"

IsNonEmptyString(v) == v.type = "str" /\ v.val # <<>>

\* the outcome of the search made for a temporary path
SearchFor(path) ==
    find_file_by_name(Str(basename(path.val)), get_configured_output_dirs, TRUE)

\* C7: a record returned for a non-empty string path holds filename (the
\* basename) and is_temp and exactly one of original_path and temp_path; a
\* path that is not temporary gives original_path equal to the input,
\* whatever the search directories hold; a temporary path gives the path
\* found as original_path when the search succeeds and the input as
\* temp_path when it finds nothing; other inputs give no record.
C7_BuildInfoShape ==
    IsBuildCall =>
        LET path == call.path
        IN  /\ ~IsNonEmptyString(path) => result = None
            /\ (IsNonEmptyString(path) /\ result.type = "dict") =>
                 /\ {"filename", "is_temp"} \subseteq DOMAIN result.val
                 /\ result.val["filename"] = Str(<<path.val[Len(path.val)]>>)
                 /\ Cardinality(DOMAIN result.val \cap {"original_path", "temp_path"}) = 1
            /\ (IsNonEmptyString(path) /\ ~IsTemporaryPath(path.val)) =>
                 result = Dict([filename |-> Str(<<path.val[Len(path.val)]>>),
                                is_temp |-> Bool(FALSE), original_path |-> path])
            /\ (IsNonEmptyString(path) /\ IsTemporaryPath(path.val)
                  /\ SearchFor(path).type = "str") =>
                 result = Dict([filename |-> Str(<<path.val[Len(path.val)]>>),
                                is_temp |-> Bool(TRUE),
                                original_path |-> SearchFor(path)])
            /\ (IsNonEmptyString(path) /\ IsTemporaryPath(path.val)
                  /\ SearchFor(path) = None) =>
                 result = Dict([filename |-> Str(<<path.val[Len(path.val)]>>),
                                is_temp |-> Bool(TRUE), temp_path |-> path])

\* C7 witness: a temporary path whose original is found in a configured
\* output directory
C7_Witness ==
    /\ IsBuildCall
    /\ call.path = Str(TempPath)
    /\ server_config = Dict([save_path |-> Str(OutDir)])
    /\ isfile(OutDir \o <<File>>)
    /\ result = Dict([filename |-> Str(<<File>>), is_temp |-> Bool(TRUE),
                      original_path |-> Str(OutDir \o <<File>>)])

\* C8 as stated: the flag resolve_and_build_info stores for a path string is
\* the classification resolve_source_image makes of the same string, and both
\* are the rule of the specification.
C8_SameClassification ==
    (IsBuildCall /\ IsNonEmptyString(call.path) /\ result.type = "dict") =>
        /\ result.val["is_temp"] = Bool(resolve_is_temp(call.path.val))
        /\ result.val["is_temp"] = Bool(IsTemporaryPath(call.path.val))

\* the records of the elements of a list that yield one, in order
RECURSIVE RecordsOf(_)
RecordsOf(l) ==
    IF l = <<>> THEN <<>>
    ELSE LET info == resolve_and_build_info(Head(l))
         IN  (IF info.type = "dict" THEN <<info>> ELSE <<>>) \o RecordsOf(Tail(l))

\* C9: what process_source_paths returns is "none" or a non-empty mapping
\* whose keys are roles of the input with a non-null value; a role whose
\* value yields no record is left out; a role holding a list is stored as
\* the ordered list of the records of its elements when there are two or
\* more and as the bare record when there is one, so that no stored list
\* has fewer than two elements.  (A call that raises returns nothing.)
C9_ProcessShape ==
    (IsProcessCall /\ result.type # "raise") =>
        LET input == IF call.source_paths.type = "dict"
                       THEN call.source_paths.val ELSE <<>>
            kept  == IF result.type = "dict" THEN DOMAIN result.val ELSE {}
        IN  /\ result = None \/ (result.type = "dict" /\ kept # {})
            /\ kept \subseteq { key \in DOMAIN input : input[key] # None }
            /\ \A key \in kept :
                 /\ result.val[key].type \in {"dict", "list"}
                 /\ result.val[key].type = "list" => Len(result.val[key].val) >= 2
            /\ \A key \in DOMAIN input :
                 LET value == input[key]
                 IN  /\ value.type = "str" =>
                          IF resolve_and_build_info(value).type = "dict"
                            THEN key \in kept /\ result.val[key] = resolve_and_build_info(value)
                            ELSE key \notin kept
                     /\ value.type = "list" =>
                          LET records == RecordsOf(value.val)
                          IN  /\ Len(records) = 0 => key \notin kept
                              /\ Len(records) = 1 =>
                                   key \in kept /\ result.val[key] = records[1]
                              /\ Len(records) >= 2 =>
                                   key \in kept /\ result.val[key] = List(records)
                     /\ value.type \notin {"str", "list"} => key \notin kept

\* C9 witness: a role whose value yields no record is left out, and a list
\* with one path and one null entry is stored as the bare record of the path
C9_Witness ==
    /\ IsProcessCall
    /\ call.source_paths.type = "dict"
    /\ DOMAIN call.source_paths.val = {"image_start", "image_refs"}
    /\ call.source_paths.val["image_start"] = Str(<<>>)
    /\ call.source_paths.val["image_refs"] = List(<<Str(RealPath), None>>)
    /\ result = Dict([image_refs |->
                        Dict([filename |-> Str(<<File>>), is_temp |-> Bool(FALSE),
                              original_path |-> Str(RealPath)])])

----------------------------------------------------------------------------
(* add and remove of a custom directory *)

IsAddCall == call.op = "add"

IsRemoveCall == call.op = "remove"

\* the plugin has a configuration and the name of its file, so that every
\* add and remove that changes the list goes on to write the file
Configured == Truthy(server_config) /\ Truthy(server_config_filename)

\* the page of the result lists the directories dirs
PageShows(page, dirs) ==
    /\ page.type = "html"
    /\ Len(page.custom) = Len(dirs)
    /\ \A n \in 1..Len(dirs) : page.custom[n][1] = dirs[n]

\* C11: an add or a remove whose write of the configuration file fails
\* returns like one whose write succeeds: its values are the page and the
\* dropdown choices of the list as it is after the action, and nothing is
\* raised; and whatever writes failed so far, the list held in memory is the
\* list of the start with every announced add appended and every announced
\* remove taken out.  The second part is about a plugin that has a
\* configuration and a file name to write to.
C11_WriteFailureCaughtListKept ==
    /\ IsAddCall =>
         /\ result.type = "tuple"
         /\ Len(result.val) = 3
         /\ PageShows(result.val[1], get_custom_dirs(server_config).val)
         /\ result.val[3] = get_custom_dirs(server_config)
    /\ IsRemoveCall =>
         /\ result.type = "tuple"
         /\ Len(result.val) = 2
         /\ PageShows(result.val[1], get_custom_dirs(server_config).val)
         /\ call.notice # "empty" =>
              result.val[2] = Dropdown(get_custom_dirs(server_config), None)
    /\ Configured => get_custom_dirs(server_config).val = accepted

\* a remove whose write broke off half way, after an add whose write failed
\* too: the file is cut short and the list in memory has both changes
C11_Witness ==
    /\ IsRemoveCall
    /\ call.notice = "removed"
    /\ call.write = "write fails"
    /\ config_file = Partial
    /\ OutDir \o <<"sub">> \in Range(accepted)
    /\ get_custom_dirs(server_config).val = accepted
    /\ PageShows(result.val[1], accepted)

----------------------------------------------------------------------------
(* the stored record resolved again *)

\* a path string that is not temporary and names a file that exists
IsExistingRealPath(v) ==
    IsNonEmptyString(v) /\ ~IsTemporaryPath(v.val) /\ isfile(v.val)

\* C12: the record stored for a path that is not temporary and exists on
\* disk resolves to that very path while the file exists, whatever the search
\* directories are: as a single record passed to resolve_source_image, and
\* as the record of a role read back from the metadata.
C12_RoundTrip ==
    /\ call.op = "build_resolve" /\ IsExistingRealPath(call.path)
         => result = call.path
    /\ call.op = "save_extract" /\ Truthy(call.source_paths)
         => \A key \in DOMAIN call.source_paths.val :
              IsExistingRealPath(call.source_paths.val[key])
                => /\ result.type = "dict"
                   /\ key \in DOMAIN result.val
                   /\ result.val[key] = call.source_paths.val[key]

====
